---------------------------- MODULE Spec2Model ----------------------------
(***************************************************************************)
(* State-machine model of id_gen.py, the bulk student-ID generator.        *)
(*                                                                         *)
(* A text (a Python str) is a sequence of chunks; a chunk is a piece of    *)
(* text that the model never splits.  The placeholder '<!-- NAME -->' is   *)
(* the three chunks "<!-- ", "NAME", " -->", so that a field value can     *)
(* hold a whole placeholder or only a part of one.  A CSV row is a         *)
(* sequence of texts.  The run is modelled without --debug, which only     *)
(* adds prints.                                                            *)
(***************************************************************************)
EXTENDS Naturals, Sequences, FiniteSets, TLC

\* Longest data file (in rows) the model reads.
MaxRows == 3

\* cairosvg.svg2pdf(parent_width=323, parent_height=204)
parent_width == 323
parent_height == 204

VARIABLES
    pc,              \* the statement the run is at
    status,          \* "running", "done", "exited" (exit(msg)), "crashed" (uncaught exception)
    err,             \* the exit message or the exception's name
    env,             \* what exists on disk when the run starts
    tmpdir,          \* whether <output_path>/tmp exists
    template_front,  \* text of front.svg
    template_back,   \* text of back.svg
    rows,            \* the rows csv.reader yields from the data file
    idx,             \* number of rows the for loop has taken; rows[idx] is `row`
    image_str,       \* base64 text of the photo
    id_barcode,      \* base64 text of the barcode PNG
    id_front,        \* front markup with the placeholders filled
    id_back,         \* back markup with the placeholder filled
    files,           \* documents written under <output_path>: path -> pages
    stdout,          \* lines printed
    outcome,         \* per row taken, how its iteration ended
    before           \* `files` as it was when the current row was taken

vars == <<pc, status, err, env, tmpdir, template_front, template_back, rows,
          idx, image_str, id_barcode, id_front, id_back, files, stdout,
          outcome, before>>

-----------------------------------------------------------------------------
(* Texts *)

RECURSIVE Join(_)
\* The str a chunk sequence stands for.
Join(s) == IF s = <<>> THEN "" ELSE s[1] \o Join(Tail(s))

RECURSIVE Replace(_, _, _)
\* str.replace(old, new): every non-overlapping occurrence of old, scanning
\* from the left; the inserted text is not scanned again.
Replace(s, old, new) ==
    IF Len(s) < Len(old) THEN s
    ELSE IF SubSeq(s, 1, Len(old)) = old
         THEN new \o Replace(SubSeq(s, Len(old) + 1, Len(s)), old, new)
         ELSE <<s[1]>> \o Replace(Tail(s), old, new)

\* '<!-- TOKEN -->'
Placeholder(tok) == <<"<!-- ", tok, " -->">>

RECURSIVE Substitute(_, _)
\* A chain of .replace calls, applied in the order of `pairs`.
Substitute(markup, pairs) ==
    IF pairs = <<>> THEN markup
    ELSE Substitute(Replace(markup, Placeholder(pairs[1].tok), pairs[1].val),
                    Tail(pairs))

\* The four front substitutions in the order the code chains them.
FrontPairs(row, photo) ==
    << [tok |-> "NAME",  val |-> row[1] \o <<" ">> \o row[2]],
       [tok |-> "YEAR",  val |-> row[3]],
       [tok |-> "ID",    val |-> row[4]],
       [tok |-> "PHOTO", val |-> <<photo>>] >>

FillFront(tmpl, row, photo) == Substitute(tmpl, FrontPairs(row, photo))

FillBack(tmpl, code) ==
    Substitute(tmpl, << [tok |-> "BARCODE", val |-> <<code>>] >>)

-----------------------------------------------------------------------------
(* Encoders *)

\* str(base64.b64encode(data))[2:-1]
b64encode(data) == "b64(" \o data \o ")"

\* Photos under <images_path>: <<year directory, file name>> -> bytes.
ImageFiles ==
    (<<"2099", "p1.jpg">> :> "jpegA") @@
    (<<"2099", "p3.jpg">> :> "jpegB") @@
    (<<"year", "photo number.jpg">> :> "jpegC")

\* os.path.join(images_path, row[2], row[4] + '.jpg')
ImagePath(row) == <<Join(row[3]), Join(row[5]) \o ".jpg">>

PhotoExists(row) == ImagePath(row) \in DOMAIN ImageFiles

\* Chunks holding a character Code128 cannot encode.
NonCode128 == {"é"}

\* barcode.get_barcode_class('code128')(id) accepts the identifier.
Encodable(id) == \A i \in 1..Len(id) : id[i] \notin NonCode128

\* svg2png(code128(id).render(module_width 1, no text), scale=10)
BarcodePng(id) == "png(code128(" \o Join(id) \o ");module_width=1;scale=10)"

-----------------------------------------------------------------------------
(* Rasterizer and merger *)

RECURSIVE Parses(_, _)
\* Whether the XML parser behind svg2pdf accepts the markup: a comment that
\* is opened is closed, no comment opens inside a comment, and no bare '&'
\* stands outside a comment.
Parses(s, inComment) ==
    IF s = <<>> THEN ~inComment
    ELSE IF s[1] = "<!-- " THEN ~inComment /\ Parses(Tail(s), TRUE)
    ELSE IF s[1] = " -->" THEN Parses(Tail(s), FALSE)
    ELSE IF s[1] = "&" THEN inComment /\ Parses(Tail(s), inComment)
    ELSE Parses(Tail(s), inComment)

\* cairosvg.svg2pdf: one page of the fixed card size.
svg2pdf(markup) ==
    << [width |-> parent_width, height |-> parent_height, content |-> markup] >>

\* PdfFileMerger: append(front), append(back).
PdfMergeBackFirst(front, back) == back \o front

PdfMerge(front, back) == front \o back

-----------------------------------------------------------------------------
(* Output layout *)

FrontPath(id) == <<"tmp/">> \o id \o <<"-front.pdf">>
BackPath(id)  == <<"tmp/">> \o id \o <<"-back.pdf">>
FinalPath(id) == id \o <<".pdf">>

NoFiles == [p \in {} |-> <<>>]

\* A write that keeps what is already at the path.
WriteKeepFirst(fs, path, doc) ==
    [p \in DOMAIN fs \cup {path} |-> IF p \in DOMAIN fs THEN fs[p] ELSE doc]

\* Writing a file creates it or replaces its content.
Write(fs, path, doc) ==
    [p \in DOMAIN fs \cup {path} |-> IF p = path THEN doc ELSE fs[p]]

\* The merge that also deletes its two inputs.
PersistMergedCleanup(fs, id) ==
    LET doc == PdfMerge(fs[FrontPath(id)], fs[BackPath(id)])
    IN  [p \in ((DOMAIN fs) \ {FrontPath(id), BackPath(id)}) \cup {FinalPath(id)}
            |-> IF p = FinalPath(id) THEN doc ELSE fs[p]]

\* Lines 243-255: read the two intermediates back, write the merged document.
PersistMerged(fs, id) ==
    Write(fs, FinalPath(id), PdfMerge(fs[FrontPath(id)], fs[BackPath(id)]))

-----------------------------------------------------------------------------
(* Inputs *)

Header ==
    << <<"First">>, <<"Last">>, <<"Year">>, <<"ID Number">>, <<"Photo Number">> >>

LowerHeader ==
    << <<"first">>, <<"last">>, <<"year">>, <<"id number">>, <<"photo number">> >>

\* A header test that ignores case.
IsHeaderAnyCase(row) == row = Header \/ row = LowerHeader

\* row == ['First', 'Last', 'Year', 'ID Number', 'Photo Number']
IsHeader(row) == row = Header

\* A skip test that looks at the fourth field.
NoPhotoWrongColumn(row) == row[4] = <<>>

\* row[4] == ''
NoPhoto(row) == row[5] = <<>>

RowSet ==
    { Header,
      LowerHeader,
      << <<"Ada">>, <<"Lovelace">>, <<"2099">>, <<"S1001">>, <<"p1">> >>,
      << <<"Bob">>, <<"Byron">>, <<"2099">>, <<"S1001">>, <<"p3">> >>,
      << <<"Fake">>, <<"Student">>, <<"2099">>, <<"S1002">>, <<>> >>,
      << <<"Cy">>, <<"Young">>, <<"2099">>, <<"S1003">>, <<"p2">> >>,
      << <<"Zo", "é">>, <<"Kim">>, <<"2099">>, <<"S", "é">>, <<"p1">> >>,
      << <<"<!-- ", "YEAR", " -->">>, <<"Hook">>, <<"2099">>, <<"S1004">>, <<"p1">> >>,
      << <<"Tom", "&", "Jerry">>, <<"Cat">>, <<"2099">>, <<"S1005">>, <<"p1">> >>,
      << >>,
      << <<"Eve">>, <<"Short">>, <<"2099">> >> }

RECURSIVE SeqsUpTo(_, _)
SeqsUpTo(S, n) ==
    IF n = 0 THEN {<<>>}
    ELSE LET shorter == SeqsUpTo(S, n - 1)
         IN  shorter \cup {Append(s, x) : s \in {t \in shorter : Len(t) = n - 1}, x \in S}

DataFiles == SeqsUpTo(RowSet, MaxRows)

FrontTemplates ==
    { <<"<svg>">> \o Placeholder("NAME") \o Placeholder("YEAR") \o Placeholder("ID")
          \o Placeholder("PHOTO") \o <<"</svg>">>,
      <<"<svg>">> \o Placeholder("NAME") \o <<"|">> \o Placeholder("NAME")
          \o Placeholder("ID") \o Placeholder("PHOTO") \o <<"</svg>">> }

BackTemplates ==
    { <<"<svg>">> \o Placeholder("BARCODE") \o <<"</svg>">>,
      <<"<svg>", "&">> \o Placeholder("BARCODE") \o <<"</svg>">> }

\* What the run finds on disk: the templates at the os.path.join path the
\* checks look at and at the template_path + name path that is opened, the
\* data file, the images directory.
Environments ==
    [front_join : BOOLEAN, back_join : BOOLEAN, front_cat : BOOLEAN,
     back_cat : BOOLEAN, data_exists : BOOLEAN, data_opens : BOOLEAN,
     images_exists : BOOLEAN]

-----------------------------------------------------------------------------
(* The run *)

Init ==
    /\ pc = "check_templates"
    /\ status = "running"
    /\ err = ""
    /\ env \in Environments
    /\ tmpdir \in BOOLEAN
    /\ template_front = <<>>
    /\ template_back = <<>>
    /\ rows = <<>>
    /\ idx = 0
    /\ image_str = ""
    /\ id_barcode = ""
    /\ id_front = <<>>
    /\ id_back = <<>>
    /\ files = NoFiles
    /\ stdout = <<>>
    /\ outcome = <<>>
    /\ before = NoFiles

At(p) == status = "running" /\ pc = p

row == rows[idx]

\* exit(msg) before the loop.
Exit(msg) ==
    /\ status' = "exited"
    /\ err' = msg
    /\ UNCHANGED <<pc, outcome>>

\* An exception nothing catches, before the loop.
Raise(e) ==
    /\ status' = "crashed"
    /\ err' = e
    /\ UNCHANGED <<pc, outcome>>

\* An exception nothing catches, inside the loop body.
RaiseInRow(e) ==
    /\ status' = "crashed"
    /\ err' = e
    /\ outcome' = Append(outcome, "failed")
    /\ UNCHANGED pc

Goto(p) ==
    /\ pc' = p
    /\ UNCHANGED <<status, err, outcome>>

\* An order of the loop body that encodes the barcode only when the back is
\* about to be rasterized.
StepAfterLateBarcode(p) ==
    CASE p = "read_photo"    -> "fill"
      [] p = "fill"          -> "svg2pdf_front"
      [] p = "svg2pdf_front" -> "barcode"
      [] p = "barcode"       -> "svg2pdf_back"
      [] p = "svg2pdf_back"  -> "merge"
      [] p = "merge"         -> "next_row"

\* The order of the statements of the loop body, lines 153-255.
StepAfter(p) ==
    CASE p = "read_photo"    -> "barcode"
      [] p = "barcode"       -> "fill"
      [] p = "fill"          -> "svg2pdf_front"
      [] p = "svg2pdf_front" -> "svg2pdf_back"
      [] p = "svg2pdf_back"  -> "merge"
      [] p = "merge"         -> "next_row"

\* A template check that exits only when both templates are missing.
TemplatesMissingBoth(e) == ~e.front_join /\ ~e.back_join

\* Lines 88-89.
TemplatesMissing(e) == ~e.front_join \/ ~e.back_join

\* Lines 87-91.
CheckTemplates ==
    /\ At("check_templates")
    /\ IF TemplatesMissing(env)
       THEN Exit("Error: front.svg or back.svg does not exist")
       ELSE Goto("check_data")
    /\ UNCHANGED <<env, tmpdir, template_front, template_back, rows, idx,
                   image_str, id_barcode, id_front, id_back, files, stdout, before>>

\* Lines 93-95.
CheckData ==
    /\ At("check_data")
    /\ IF ~env.data_exists
       THEN Exit("Error: data_path does not exist")
       ELSE Goto("check_images")
    /\ UNCHANGED <<env, tmpdir, template_front, template_back, rows, idx,
                   image_str, id_barcode, id_front, id_back, files, stdout, before>>

\* Lines 97-99.
CheckImages ==
    /\ At("check_images")
    /\ IF ~env.images_exists
       THEN Exit("Error: images_path does not exist")
       ELSE Goto("makedirs")
    /\ UNCHANGED <<env, tmpdir, template_front, template_back, rows, idx,
                   image_str, id_barcode, id_front, id_back, files, stdout, before>>

\* Lines 101-106.
MakeDirs ==
    /\ At("makedirs")
    /\ tmpdir' = TRUE
    /\ Goto("open_front")
    /\ UNCHANGED <<env, template_front, template_back, rows, idx,
                   image_str, id_barcode, id_front, id_back, files, stdout, before>>

\* Lines 112-113.
OpenFront ==
    /\ At("open_front")
    /\ IF env.front_cat
       THEN /\ template_front' \in FrontTemplates
            /\ Goto("open_back")
       ELSE /\ Raise("FileNotFoundError")
            /\ UNCHANGED template_front
    /\ UNCHANGED <<env, tmpdir, template_back, rows, idx,
                   image_str, id_barcode, id_front, id_back, files, stdout, before>>

\* Lines 117-118.
OpenBack ==
    /\ At("open_back")
    /\ IF env.back_cat
       THEN /\ template_back' \in BackTemplates
            /\ Goto("open_data")
       ELSE /\ Raise("FileNotFoundError")
            /\ UNCHANGED template_back
    /\ UNCHANGED <<env, tmpdir, template_front, rows, idx,
                   image_str, id_barcode, id_front, id_back, files, stdout, before>>

\* Lines 128-129.
OpenData ==
    /\ At("open_data")
    /\ IF env.data_opens
       THEN /\ rows' \in DataFiles
            /\ Goto("next_row")
       ELSE /\ Raise("OSError")
            /\ UNCHANGED rows
    /\ UNCHANGED <<env, tmpdir, template_front, template_back, idx,
                   image_str, id_barcode, id_front, id_back, files, stdout, before>>

SkipMessage(r) ==
    <<"Student ">> \o r[1] \o <<" ">> \o r[2]
        \o <<" does not have a photo. Skipping...">>

\* Lines 130-151: take the next row; the header test, the skip test.
NextRow ==
    /\ At("next_row")
    /\ idx < Len(rows)
    /\ idx' = idx + 1
    /\ before' = files
    /\ LET r == rows[idx + 1]
       IN  IF IsHeader(r)
           THEN /\ outcome' = Append(outcome, "header")
                /\ UNCHANGED <<pc, status, err, stdout>>
           ELSE IF Len(r) < 5
           THEN /\ RaiseInRow("IndexError")
                /\ UNCHANGED stdout
           ELSE IF NoPhoto(r)
           THEN /\ stdout' = Append(stdout, SkipMessage(r))
                /\ outcome' = Append(outcome, "skipped")
                /\ UNCHANGED <<pc, status, err>>
           ELSE /\ Goto("read_photo")
                /\ UNCHANGED stdout
    /\ UNCHANGED <<env, tmpdir, template_front, template_back, rows,
                   image_str, id_barcode, id_front, id_back, files>>

\* Lines 155-164.
ReadPhoto ==
    /\ At("read_photo")
    /\ IF PhotoExists(row)
       THEN /\ image_str' = b64encode(ImageFiles[ImagePath(row)])
            /\ Goto(StepAfter("read_photo"))
       ELSE /\ RaiseInRow("FileNotFoundError")
            /\ UNCHANGED image_str
    /\ UNCHANGED <<env, tmpdir, template_front, template_back, rows, idx,
                   id_barcode, id_front, id_back, files, stdout, before>>

\* Lines 179-190.
EncodeBarcode ==
    /\ At("barcode")
    /\ IF Encodable(row[4])
       THEN /\ id_barcode' = b64encode(BarcodePng(row[4]))
            /\ Goto(StepAfter("barcode"))
       ELSE /\ RaiseInRow("IllegalCharacterError")
            /\ UNCHANGED id_barcode
    /\ UNCHANGED <<env, tmpdir, template_front, template_back, rows, idx,
                   image_str, id_front, id_back, files, stdout, before>>

\* Lines 203-211.
Fill ==
    /\ At("fill")
    /\ id_front' = FillFront(template_front, row, image_str)
    /\ id_back' = FillBack(template_back, id_barcode)
    /\ Goto(StepAfter("fill"))
    /\ UNCHANGED <<env, tmpdir, template_front, template_back, rows, idx,
                   image_str, id_barcode, files, stdout, before>>

\* Lines 227-232.
RasterizeFront ==
    /\ At("svg2pdf_front")
    /\ IF Parses(id_front, FALSE)
       THEN /\ files' = Write(files, FrontPath(row[4]), svg2pdf(id_front))
            /\ Goto(StepAfter("svg2pdf_front"))
       ELSE /\ RaiseInRow("ParseError")
            /\ UNCHANGED files
    /\ UNCHANGED <<env, tmpdir, template_front, template_back, rows, idx,
                   image_str, id_barcode, id_front, id_back, stdout, before>>

\* Lines 233-238.
RasterizeBack ==
    /\ At("svg2pdf_back")
    /\ IF Parses(id_back, FALSE)
       THEN /\ files' = Write(files, BackPath(row[4]), svg2pdf(id_back))
            /\ Goto(StepAfter("svg2pdf_back"))
       ELSE /\ RaiseInRow("ParseError")
            /\ UNCHANGED files
    /\ UNCHANGED <<env, tmpdir, template_front, template_back, rows, idx,
                   image_str, id_barcode, id_front, id_back, stdout, before>>

\* Lines 243-255, then back to the top of the loop.
Merge ==
    /\ At("merge")
    /\ files' = PersistMerged(files, row[4])
    /\ pc' = StepAfter("merge")
    /\ outcome' = Append(outcome, "written")
    /\ UNCHANGED <<status, err, env, tmpdir, template_front, template_back, rows,
                   idx, image_str, id_barcode, id_front, id_back, stdout, before>>

\* Line 258, once the rows are exhausted.
Finish ==
    /\ At("next_row")
    /\ idx = Len(rows)
    /\ stdout' = Append(stdout, <<"\nDone.">>)
    /\ status' = "done"
    /\ UNCHANGED <<pc, err, env, tmpdir, template_front, template_back, rows, idx,
                   image_str, id_barcode, id_front, id_back, files, outcome, before>>

Next ==
    \/ CheckTemplates
    \/ CheckData
    \/ CheckImages
    \/ MakeDirs
    \/ OpenFront
    \/ OpenBack
    \/ OpenData
    \/ NextRow
    \/ ReadPhoto
    \/ EncodeBarcode
    \/ Fill
    \/ RasterizeFront
    \/ RasterizeBack
    \/ Merge
    \/ Finish

Spec == Init /\ [][Next]_vars

-----------------------------------------------------------------------------
(* What a record's documents are, from the inputs alone *)

\* The front page document of record r: its photo read and encoded, the
\* front template filled, the result rasterized.
FrontDoc(r) ==
    svg2pdf(FillFront(template_front, r, b64encode(ImageFiles[ImagePath(r)])))

\* The back page document of record r.
BackDoc(r) ==
    svg2pdf(FillBack(template_back, b64encode(BarcodePng(r[4]))))

\* A five-field record with a photo reference whose photo exists.
WellFormedWithPhoto(r) ==
    /\ Len(r) = 5
    /\ r[5] # <<>>
    /\ PhotoExists(r)

\* A record every step of the pipeline succeeds on.
Processable(r) ==
    /\ WellFormedWithPhoto(r)
    /\ Encodable(r[4])
    /\ Parses(FillFront(template_front, r, b64encode(ImageFiles[ImagePath(r)])), FALSE)
    /\ Parses(FillBack(template_back, b64encode(BarcodePng(r[4]))), FALSE)

InRecordSteps == {"read_photo", "barcode", "fill", "svg2pdf_front", "svg2pdf_back", "merge"}

Stopped == status \in {"done", "exited", "crashed"}

\* s occurs in line as a contiguous piece.
Occurs(s, line) ==
    \E k \in 0..(Len(line) - Len(s)) : SubSeq(line, k + 1, k + Len(s)) = s

-----------------------------------------------------------------------------
(* Claims *)

\* C1: per-record isolation: when a record fails in one of the pipeline
\* steps, every later record that the pipeline can process still gets its
\* final document in the same run.
C1_Isolation ==
    (status = "crashed" /\ pc \in InRecordSteps) =>
        \A j \in (idx + 1)..Len(rows) :
            Processable(rows[j]) => FinalPath(rows[j][4]) \in DOMAIN files

\* C2: a record whose fifth field is empty ends as a skip, a printed line
\* names the person (first and last name), the record writes no file (the
\* files are those there were when the row was taken), and the run goes on
\* to the next row.
C2_SkipWritesNothing ==
    \A i \in 1..Len(outcome) :
        (Len(rows[i]) >= 5 /\ rows[i][5] = <<>>) =>
            /\ outcome[i] = "skipped"
            /\ \E n \in 1..Len(stdout) :
                   /\ Occurs(rows[i][1], stdout[n])
                   /\ Occurs(rows[i][2], stdout[n])
            /\ (i = idx => /\ files = before
                           /\ pc = "next_row"
                           /\ status # "crashed")

C2_Witness ==
    /\ status = "done"
    /\ \E i, j, k \in 1..Len(outcome) :
           /\ i < j /\ j < k
           /\ outcome[i] = "written"
           /\ outcome[j] = "skipped"
           /\ outcome[k] = "written"

\* C3 as stated: every five-field record with a non-empty photo reference
\* whose photo exists gets its final document.
C3_Original ==
    \A i \in 1..Len(outcome) :
        WellFormedWithPhoto(rows[i]) =>
            /\ outcome[i] = "written"
            /\ FinalPath(rows[i][4]) \in DOMAIN files

\* C3 amended: every five-field record with a non-empty photo reference
\* whose photo exists, whose identifier Code128 can encode and whose filled
\* front and back markup parse, gets exactly one final document, at
\* <idNumber>.pdf; right after the record it holds the pages of the front
\* document followed by the pages of the back document, and the record has
\* touched no other path than its own three.
C3_MergedDocument ==
    \A i \in 1..Len(outcome) :
        Processable(rows[i]) =>
            LET id == rows[i][4]
                own == {FrontPath(id), BackPath(id), FinalPath(id)}
            IN  /\ outcome[i] = "written"
                /\ FinalPath(id) \in DOMAIN files
                /\ i = idx =>
                     /\ files[FinalPath(id)] = FrontDoc(rows[i]) \o BackDoc(rows[i])
                     /\ Len(files[FinalPath(id)])
                            = Len(FrontDoc(rows[i])) + Len(BackDoc(rows[i]))
                     /\ files[FrontPath(id)] = FrontDoc(rows[i])
                     /\ files[BackPath(id)] = BackDoc(rows[i])
                     /\ DOMAIN files = DOMAIN before \cup own
                     /\ \A p \in DOMAIN before \ own : files[p] = before[p]

C3_Witness ==
    /\ pc = "next_row"
    /\ idx > 1
    /\ Len(outcome) = idx
    /\ Processable(rows[idx])
    /\ outcome[idx] = "written"
    /\ DOMAIN before # {}

\* C4: a row ends as the header exactly when it equals the expected labels
\* field for field; a row that differs from them, in casing or otherwise,
\* is never dropped as a header and the pipeline never works on the header.
C4_HeaderExact ==
    /\ \A i \in 1..Len(outcome) : (outcome[i] = "header") <=> (rows[i] = Header)
    /\ (pc \in InRecordSteps) => rows[idx] # Header

C4_Witness ==
    \E i, j \in 1..Len(outcome) :
        /\ rows[i] = Header
        /\ outcome[i] = "header"
        /\ rows[j] = LowerHeader
        /\ outcome[j] = "written"

\* C5: the filled front markup does not depend on the order in which the
\* four tokens are substituted.
C5_OrderIndependent ==
    (pc \in {"svg2pdf_front", "svg2pdf_back", "merge"}) =>
        \A f \in Permutations(1..4) :
            Substitute(template_front,
                       [n \in 1..4 |-> FrontPairs(row, image_str)[f[n]]]) = id_front

\* C6: of the records of one identifier that were written, the final
\* document is the one built from the latest; an earlier one is overwritten.
C6_LastWins ==
    \A i \in 1..Len(outcome) :
        (/\ outcome[i] = "written"
         /\ \A j \in (i + 1)..Len(outcome) :
                ~(outcome[j] = "written" /\ rows[j][4] = rows[i][4]))
        => /\ FinalPath(rows[i][4]) \in DOMAIN files
           /\ files[FinalPath(rows[i][4])] = FrontDoc(rows[i]) \o BackDoc(rows[i])

C6_Witness ==
    /\ status = "done"
    /\ \E i, j \in 1..Len(outcome) :
           /\ i < j
           /\ outcome[i] = "written"
           /\ outcome[j] = "written"
           /\ rows[i][4] = rows[j][4]
           /\ FrontDoc(rows[i]) # FrontDoc(rows[j])
           /\ files[FinalPath(rows[j][4])] = FrontDoc(rows[j]) \o BackDoc(rows[j])

\* A template or the data file is missing or cannot be opened.
BatchFatal ==
    \/ ~env.front_join
    \/ ~env.back_join
    \/ ~env.front_cat
    \/ ~env.back_cat
    \/ ~env.data_exists
    \/ ~env.data_opens

\* C7: when a template or the data file is missing or cannot be opened, no
\* row is ever read, nothing is printed, no document is written, the run
\* never completes, and when it has stopped it carries a diagnostic.
C7_FatalBeforeRecords ==
    BatchFatal =>
        /\ rows = <<>>
        /\ idx = 0
        /\ outcome = <<>>
        /\ stdout = <<>>
        /\ files = NoFiles
        /\ pc \notin InRecordSteps \cup {"next_row"}
        /\ status # "done"
        /\ Stopped => err # ""

C7_Witness ==
    /\ status = "crashed"
    /\ pc = "open_data"
    /\ ~env.data_opens
    /\ template_front # <<>>
    /\ template_back # <<>>

\* C8: a row with fewer than five fields does not end the run.
C8_MalformedNonFatal ==
    \A i \in 1..Len(outcome) :
        Len(rows[i]) < 5 => ~(status = "crashed" /\ idx = i)

\* The identifiers of the rows taken so far that reached the pipeline.
PipelineIds ==
    { rows[i][4] : i \in { k \in 1..idx :
                             /\ rows[k] # Header
                             /\ Len(rows[k]) >= 5
                             /\ rows[k][5] # <<>> } }

\* The layout of the output: every file is the front, back or final
\* document of the identifier of a non-skipped record; a final document
\* has both its intermediates, a back intermediate has its front.
C9_Layout ==
    /\ DOMAIN files \subseteq
           UNION { {FrontPath(id), BackPath(id), FinalPath(id)} : id \in PipelineIds }
    /\ \A id \in PipelineIds :
           /\ FinalPath(id) \in DOMAIN files =>
                  FrontPath(id) \in DOMAIN files /\ BackPath(id) \in DOMAIN files
           /\ BackPath(id) \in DOMAIN files => FrontPath(id) \in DOMAIN files

\* C9 as stated: the layout, and whenever the run is between records or has
\* stopped, every intermediate present was an input of its identifier's
\* merge: the final document exists and is made of the intermediates.
C9_Original ==
    /\ C9_Layout
    /\ (Stopped \/ pc = "next_row") =>
           \A id \in PipelineIds :
               (FrontPath(id) \in DOMAIN files \/ BackPath(id) \in DOMAIN files) =>
                   /\ FinalPath(id) \in DOMAIN files
                   /\ BackPath(id) \in DOMAIN files
                   /\ files[FinalPath(id)]
                          = files[FrontPath(id)] \o files[BackPath(id)]

\* C9 amended: the layout holds in every state, no file is ever removed,
\* and right after a record is merged its final document is made of the
\* two intermediates then present.
C9_Intermediates ==
    /\ [](C9_Layout)
    /\ []((pc = "next_row" /\ idx > 0 /\ Len(outcome) = idx /\ outcome[idx] = "written") =>
             files[FinalPath(row[4])]
                 = files[FrontPath(row[4])] \o files[BackPath(row[4])])
    /\ [][DOMAIN files \subseteq DOMAIN files']_vars

C9_Witness ==
    /\ status = "done"
    /\ \E a, b \in PipelineIds :
           /\ a # b
           /\ {FrontPath(a), BackPath(a), FinalPath(a)} \subseteq DOMAIN files
           /\ {FrontPath(b), BackPath(b), FinalPath(b)} \subseteq DOMAIN files

\* C10: while the photo is read and the barcode encoded the record has
\* written nothing: the files are those there were when the row was taken,
\* also when one of the two steps fails.
C10_NoWriteBeforeEncoding ==
    (pc \in {"read_photo", "barcode"}) => files = before

C10_Witness ==
    /\ status = "crashed"
    /\ pc = "barcode"
    /\ err = "IllegalCharacterError"
    /\ \E id \in PipelineIds : FinalPath(id) \in DOMAIN files

=============================================================================
